---- MODULE Spec2Model ----
(***************************************************************************)
(* Model of telemetry/vscode/src/generate.ts: the generator that merges     *)
(* telemetry definition documents and synthesizes the typed API surface     *)
(* (base interface, per-metric interfaces, union type aliases and the       *)
(* runtime `definitions` table).                                            *)
(*                                                                          *)
(* Strings.  A JavaScript string is modelled as the pair                    *)
(*     <<first character, remaining characters>>                            *)
(* so that toTitleCase, the only operation of the generator that looks      *)
(* inside a name, can be computed as the code computes it.  Optional        *)
(* object fields are record fields that may be missing from the record's    *)
(* DOMAIN (JavaScript `undefined`).                                         *)
(***************************************************************************)
EXTENDS Naturals, Sequences, FiniteSets, TLC

VARIABLES
    exportedTypes,  \* module-level registry of union type aliases (line 79)
    pc,             \* position of the current generate() call
    runs,           \* number of generate() calls started in this process
    inputFiles,     \* contents of args.inputFiles of the current call
    input,          \* the merged, de-duplicated schema (line 63)
    file,           \* the in-memory source file built by generateFile
    err,            \* the error the current call was rejected with
    writes,         \* writeFile calls made by the current call
    disk            \* the output file on disk

vars == <<exportedTypes, pc, runs, inputFiles, input, file, err, writes, disk>>

----------------------------------------------------------------------------
(* Bounds of the model *)

MaxRuns == 2
MaxFiles == 2

----------------------------------------------------------------------------
(* Generic helpers *)

Has(r, f) == f \in DOMAIN r

Range(s) == {s[k] : k \in 1..Len(s)}

Str(h, t) == <<h, t>>

LowerCase == <<"a","b","c","d","e","f","g","h","i","j","k","l","m",
               "n","o","p","q","r","s","t","u","v","w","x","y","z">>
UpperCase == <<"A","B","C","D","E","F","G","H","I","J","K","L","M",
               "N","O","P","Q","R","S","T","U","V","W","X","Y","Z">>

toUpperCase(c) ==
    IF \E k \in 1..26 : LowerCase[k] = c
    THEN UpperCase[CHOOSE k \in 1..26 : LowerCase[k] = c]
    ELSE c

\* s.replace(s[0], s[0].toUpperCase()): the first occurrence of s[0] is s[0]
toTitleCase(s) == Str(toUpperCase(s[1]), s[2])

\* the template literal `'${v}'`
Quote(v) == <<"'", v, "'">>

\* the text between the quotes of a quoted literal
Unquote(q) == q[2]

\* vals.map(v => `'${v}'`).join(' | '): the members of the union, in order
UnionOf(vals) == [k \in 1..Len(vals) |-> Quote(vals[k])]

BoolText(b) == IF b THEN "true" ELSE "false"

NoError == [class |-> "none", values |-> <<>>]

----------------------------------------------------------------------------
(* Program constants *)

commonMetadata ==
    << Str("a", "wsAccount"), Str("a", "wsRegion"), Str("d", "uration"),
       Str("h", "ttpStatusCode"), Str("r", "eason"), Str("r", "easonDesc"),
       Str("r", "equestId"), Str("r", "equestServiceType"),
       Str("r", "esult"), Str("s", "ource") >>

TString == Str("s", "tring")
TNumber == Str("n", "umber")
TBoolean == Str("b", "oolean")

KString == Str("s", "tring")
KInt == Str("i", "nt")
KDouble == Str("d", "ouble")
KBoolean == Str("b", "oolean")

UnitNone == Str("N", "one")

----------------------------------------------------------------------------
(* Pure functions of generate.ts.  A function that can throw returns a      *)
(* record [ok, ...]: ok = FALSE carries the error thrown, and in both cases *)
(* exportedTypes is the registry as the call left it.                       *)

\* The only element of a singleton set.  The({e(v) : v \in {x}}) is e(x) with
\* x evaluated once: it plays the part of a local `const v = x`.
The(S) == CHOOSE x \in S : TRUE

\* variant: the last element of each name is kept ("last wins")
RECURSIVE UniqByLastFrom(_, _)
UniqByLastFrom(s, acc) ==
    IF s = <<>> THEN acc
    ELSE The({UniqByLastFrom(rest, kept) :
                 rest \in {Tail(s)},
                 kept \in {IF \E k \in 2..Len(s) : s[k].name = Head(s).name
                           THEN acc
                           ELSE Append(acc, Head(s))}})

uniqByLast(s) == The({UniqByLastFrom(a, <<>>) : a \in {s}})

\* variant: _.uniq, elements compared as a whole instead of by name
RECURSIVE UniqFrom(_, _)
UniqFrom(s, acc) ==
    IF s = <<>> THEN acc
    ELSE The({UniqFrom(rest, kept) :
                 rest \in {Tail(s)},
                 kept \in {IF \E k \in 1..Len(acc) : acc[k] = Head(s)
                           THEN acc
                           ELSE Append(acc, Head(s))}})

uniqByValue(s) == The({UniqFrom(a, <<>>) : a \in {s}})

RECURSIVE UniqByFrom(_, _)
UniqByFrom(s, acc) ==
    IF s = <<>> THEN acc
    ELSE The({UniqByFrom(rest, kept) :
                 rest \in {Tail(s)},
                 kept \in {IF \E k \in 1..Len(acc) : acc[k].name = Head(s).name
                           THEN acc
                           ELSE Append(acc, Head(s))}})

\* _.uniqBy(array, 'name'): keeps the first element of each name, in order
uniqBy(s) == The({UniqByFrom(a, <<>>) : a \in {s}})

\* the reducer of lines 54-58, applied to the documents left to right
RECURSIVE reduceDefinitions(_, _)
reduceDefinitions(docs, item) ==
    IF docs = <<>> THEN item
    ELSE The({reduceDefinitions(rest, next) :
                 rest \in {Tail(docs)},
                 next \in {[types |-> item.types \o
                                (IF Has(Head(docs), "types")
                                 THEN Head(docs).types ELSE <<>>),
                            metrics |-> item.metrics \o Head(docs).metrics]}})

mergeDefinitions(docs) ==
    The({[types |-> uniqBy(rawDefinitions.types),
          metrics |-> uniqBy(rawDefinitions.metrics)] :
            rawDefinitions \in
                {reduceDefinitions(docs, [types |-> <<>>, metrics |-> <<>>])}})

\* variant: an unknown `type` falls back to string instead of throwing
getArgsFromMetadataLenient(m, exported) ==
    IF Has(m, "allowedValues")
    THEN LET name == toTitleCase(m.name)
             mm == \E k \in 1..Len(exported) : exported[k].name = name
         IN [ok |-> TRUE, ret |-> name,
             exportedTypes |->
                 IF mm THEN exported
                 ELSE Append(exported,
                             [name |-> name, type |-> UnionOf(m.allowedValues)])]
    ELSE IF Has(m, "type") /\ (m.type = KDouble \/ m.type = KInt)
         THEN [ok |-> TRUE, ret |-> TNumber, exportedTypes |-> exported]
    ELSE IF Has(m, "type") /\ m.type = KBoolean
         THEN [ok |-> TRUE, ret |-> TBoolean, exportedTypes |-> exported]
    ELSE [ok |-> TRUE, ret |-> TString, exportedTypes |-> exported]

getArgsFromMetadata(m, exported) ==
    IF Has(m, "allowedValues")
    THEN LET name == toTitleCase(m.name)
             mm == \E k \in 1..Len(exported) : exported[k].name = name
         IN [ok |-> TRUE, ret |-> name,
             exportedTypes |->
                 IF mm THEN exported
                 ELSE Append(exported,
                             [name |-> name, type |-> UnionOf(m.allowedValues)])]
    ELSE IF ~Has(m, "type") \/ m.type = KString
         THEN [ok |-> TRUE, ret |-> TString, exportedTypes |-> exported]
    ELSE IF m.type = KDouble \/ m.type = KInt
         THEN [ok |-> TRUE, ret |-> TNumber, exportedTypes |-> exported]
    ELSE IF m.type = KBoolean
         THEN [ok |-> TRUE, ret |-> TBoolean, exportedTypes |-> exported]
    ELSE [ok |-> FALSE,
          err |-> [class |-> "TypeError", values |-> <<m.type, m.name>>],
          exportedTypes |-> exported]

\* variant: an undeclared name resolves to a plain string type
getTypeOrDefault(types, name) ==
    IF \E k \in 1..Len(types) : types[k].name = name
    THEN [ok |-> TRUE,
          ret |-> types[CHOOSE k \in 1..Len(types) :
                          /\ types[k].name = name
                          /\ \A j \in 1..(k - 1) : types[j].name # name]]
    ELSE [ok |-> TRUE, ret |-> [name |-> name]]

getTypeOrThrow(types, name) ==
    IF \E k \in 1..Len(types) : types[k].name = name
    THEN [ok |-> TRUE,
          ret |-> types[CHOOSE k \in 1..Len(types) :
                          /\ types[k].name = name
                          /\ \A j \in 1..(k - 1) : types[j].name # name]]
    ELSE [ok |-> FALSE, err |-> [class |-> "Error", values |-> <<name>>]]

getMetricMetadata(metric) ==
    IF Has(metric, "metadata")
    THEN SelectSeq(metric.metadata, LAMBDA r : r.type \notin Range(commonMetadata))
    ELSE <<>>

\* variant: hasQuestionToken copies `required` (the negation is lost)
generateMetadataPropertyNoNegation(metadata, exported) ==
    The({IF t.ok
         THEN [ok |-> TRUE, exportedTypes |-> t.exportedTypes,
               ret |-> [name |-> metadata.name, type |-> t.ret,
                        hasQuestionToken |-> metadata.required]]
         ELSE t :
            t \in {getArgsFromMetadata(metadata, exported)}})

\* metadata is a MetadataType extended with `required`
generateMetadataProperty(metadata, exported) ==
    The({IF t.ok
         THEN [ok |-> TRUE, exportedTypes |-> t.exportedTypes,
               ret |-> [name |-> metadata.name, type |-> t.ret,
                        hasQuestionToken |-> ~metadata.required]]
         ELSE t :
            t \in {getArgsFromMetadata(metadata, exported)}})

\* one call of a property list's map callback: acc holds the properties built
\* so far and the registry; metadata is the object handed to
\* generateMetadataProperty once the lookup t has succeeded
AddProperty(t, metadata, acc) ==
    IF ~t.ok
    THEN [ok |-> FALSE, err |-> t.err, exportedTypes |-> acc.exportedTypes]
    ELSE The({IF ~p.ok THEN p
              ELSE [ok |-> TRUE, ret |-> Append(acc.ret, p.ret),
                    exportedTypes |-> p.exportedTypes] :
                 p \in {generateMetadataProperty(metadata, acc.exportedTypes)}})

\* toProp of generateMetricBase: { required: false, ...getTypeOrThrow(..) }
toProp(name, types, acc) ==
    The({AddProperty(t, IF t.ok THEN t.ret @@ [required |-> FALSE] ELSE t, acc) :
            t \in {getTypeOrThrow(types, name)}})

RECURSIVE BaseProps(_, _, _)
BaseProps(names, types, acc) ==
    IF names = <<>> \/ ~acc.ok THEN acc
    ELSE The({BaseProps(rest, types, next) :
                 rest \in {Tail(names)},
                 next \in {toProp(Head(names), types, acc)}})

\* the schema-derived properties of MetricBase; the six fixed, optional
\* client fields (passive, value, trackPerformance, traceId, metricId,
\* parentId) are the same in every run and are not carried in the model
generateMetricBase(types, exported) ==
    BaseProps(commonMetadata, types,
              [ok |-> TRUE, ret |-> <<>>, exportedTypes |-> exported])

\* the map callback of generateMetricInterface:
\* { ...getTypeOrThrow(types, m.type), required: m.required ?? true }
refToProp(m, types, acc) ==
    The({AddProperty(t,
                     IF t.ok
                     THEN [required |-> IF Has(m, "required") THEN m.required
                                        ELSE TRUE] @@ t.ret
                     ELSE t,
                     acc) :
            t \in {getTypeOrThrow(types, m.type)}})

RECURSIVE InterfaceProps(_, _, _)
InterfaceProps(refs, types, acc) ==
    IF refs = <<>> \/ ~acc.ok THEN acc
    ELSE The({InterfaceProps(rest, types, next) :
                 rest \in {Tail(refs)},
                 next \in {refToProp(Head(refs), types, acc)}})

\* the interface is identified by its metric; its PascalCase name is not
\* carried in the model
generateMetricInterface(metric, types, exported) ==
    The({IF r.ok
         THEN [ok |-> TRUE, exportedTypes |-> r.exportedTypes,
               ret |-> [metric |-> metric.name, properties |-> r.ret]]
         ELSE r :
            r \in {InterfaceProps(getMetricMetadata(metric), types,
                                  [ok |-> TRUE, ret |-> <<>>,
                                   exportedTypes |-> exported])}})

\* telemetryJson.metrics.map(m => generateMetricInterface(m, types))
RECURSIVE MetricInterfaces(_, _, _)
MetricInterfaces(metrics, types, acc) ==
    IF metrics = <<>> \/ ~acc.ok THEN acc
    ELSE The({MetricInterfaces(rest, types, next) :
                 rest \in {Tail(metrics)},
                 next \in {The({IF ~r.ok THEN r
                                ELSE [ok |-> TRUE, ret |-> Append(acc.ret, r.ret),
                                      exportedTypes |-> r.exportedTypes] :
                                   r \in {generateMetricInterface(
                                              Head(metrics), types,
                                              acc.exportedTypes)}})}})

\* variant: only an explicit `required: true` counts
requiredMetadataExplicitOnly(m) ==
    LET refs == SelectSeq(getMetricMetadata(m),
                          LAMBDA r : Has(r, "required") /\ r.required)
    IN [k \in 1..Len(refs) |-> Quote(refs[k].type)]

requiredMetadataOf(m) ==
    LET refs == SelectSeq(getMetricMetadata(m),
                          LAMBDA r : IF Has(r, "required") THEN r.required ELSE TRUE)
    IN [k \in 1..Len(refs) |-> Quote(refs[k].type)]

\* variant: trackPerformance is read from `passive`
definitionFieldCopyPaste(m) ==
    [key |-> m.name,
     unit |-> Quote(IF Has(m, "unit") THEN m.unit ELSE UnitNone),
     passive |-> BoolText(IF Has(m, "passive") THEN m.passive ELSE FALSE),
     trackPerformance |-> BoolText(IF Has(m, "passive") THEN m.passive ELSE FALSE),
     requiredMetadata |-> requiredMetadataOf(m)]

definitionField(m) ==
    [key |-> m.name,
     unit |-> Quote(IF Has(m, "unit") THEN m.unit ELSE UnitNone),
     passive |-> BoolText(IF Has(m, "passive") THEN m.passive ELSE FALSE),
     trackPerformance |->
         BoolText(IF Has(m, "trackPerformance") THEN m.trackPerformance ELSE FALSE),
     requiredMetadata |-> requiredMetadataOf(m)]

generateDefinitions(metrics) == [k \in 1..Len(metrics) |-> definitionField(metrics[k])]

EmptyFile == [base |-> <<>>, interfaces |-> <<>>, typeAliases |-> <<>>,
              definitions |-> <<>>]

\* the declarations that depend on the schema, in the order they are built;
\* the fixed declarations (MetricDefinition, Metadata, Span, Metric) and the
\* per-metric name map and accessors carry no more than the metric names
generateFile(telemetryJson, exported) ==
    The({IF ~b.ok THEN b
         ELSE The({IF ~i.ok THEN i
                   ELSE [ok |-> TRUE, exportedTypes |-> i.exportedTypes,
                         ret |-> [base |-> b.ret,
                                  interfaces |-> i.ret,
                                  typeAliases |-> i.exportedTypes,
                                  definitions |->
                                      generateDefinitions(telemetryJson.metrics)]] :
                      i \in {MetricInterfaces(
                                 telemetryJson.metrics, telemetryJson.types,
                                 [ok |-> TRUE, ret |-> <<>>,
                                  exportedTypes |-> b.exportedTypes])}}) :
            b \in {generateMetricBase(telemetryJson.types, exported)}})

----------------------------------------------------------------------------
(* The external schema validator (./parser validateInput): returns the      *)
(* parsed document or throws for a malformed one.                           *)

validateInput(f) ==
    IF f.wellFormed
    THEN [ok |-> TRUE, ret |-> f.document]
    ELSE [ok |-> FALSE, err |-> [class |-> "ValidationError", values |-> <<>>]]

----------------------------------------------------------------------------
(* Input documents the runs are drawn from *)

Common(k) == [name |-> commonMetadata[k]]

ResultType ==
    [name |-> Str("r", "esult"),
     allowedValues |-> <<Str("S", "ucceeded"), Str("F", "ailed")>>]
ResultOverride ==
    [name |-> Str("r", "esult"), allowedValues |-> <<Str("S", "ucceeded")>>]
DurationType == [name |-> Str("d", "uration"), type |-> KDouble]
DurationFloat == [name |-> Str("d", "uration"), type |-> Str("f", "loat")]

CommonTypes ==
    << Common(1), Common(2) @@ [type |-> KString], DurationType,
       Common(4) @@ [type |-> KString], Common(5), Common(6), Common(7),
       Common(8), ResultType, Common(10) >>

RuntimeA == [name |-> Str("r", "untime"),
             allowedValues |-> <<Str("n", "odejs"), Str("p", "ython")>>]
RuntimeB == [name |-> Str("r", "untime"), allowedValues |-> <<Str("j", "ava")>>]
RuntimeC == [name |-> Str("R", "untime"), allowedValues |-> <<Str("g", "o")>>]
AttemptsInt == [name |-> Str("a", "ttempts"), type |-> KInt]
AttemptsFloat == [name |-> Str("a", "ttempts"), type |-> Str("f", "loat")]
EnabledType == [name |-> Str("e", "nabled"), type |-> KBoolean]
LegacyFloat == [name |-> Str("l", "egacy"), type |-> Str("f", "loat")]

Ref(n) == [type |-> n]
RefR(n, r) == [type |-> n, required |-> r]

LambdaInvoke1 ==
    [name |-> Str("l", "ambda_invoke"),
     metadata |-> << RefR(Str("r", "esult"), TRUE) >>]
LambdaInvoke2 ==
    [name |-> Str("l", "ambda_invoke"), unit |-> Str("M", "illiseconds"),
     passive |-> TRUE,
     metadata |-> << Ref(Str("r", "untime")), RefR(Str("a", "ttempts"), FALSE),
                     RefR(Str("d", "uration"), TRUE) >>]
S3Upload1 ==
    [name |-> Str("s", "3_upload"), passive |-> FALSE, trackPerformance |-> TRUE]
S3Upload2 ==
    [name |-> Str("s", "3_upload"), unit |-> Str("C", "ount"),
     trackPerformance |-> FALSE,
     metadata |-> << RefR(Str("R", "untime"), TRUE), RefR(Str("r", "untime"), FALSE),
                     RefR(Str("r", "esult"), TRUE), Ref(Str("e", "nabled")),
                     RefR(Str("r", "untime"), TRUE) >>]
Ec2Start ==
    [name |-> Str("e", "c2_start"),
     metadata |-> << Ref(Str("s", "ource")), RefR(Str("g", "host"), FALSE) >>]
Ec2Retry ==
    [name |-> Str("e", "c2_retry"), metadata |-> << Ref(Str("a", "ttempts")) >>]

Documents ==
    { [types |-> CommonTypes, metrics |-> <<LambdaInvoke1>>],
      [types |-> SelectSeq(CommonTypes, LAMBDA t : t.name # Str("s", "ource")),
       metrics |-> <<LambdaInvoke1>>],
      [types |-> <<RuntimeA, AttemptsInt, RuntimeB>>,
       metrics |-> <<LambdaInvoke2, S3Upload1, S3Upload2>>],
      [types |-> <<RuntimeB, RuntimeC, EnabledType, LegacyFloat>>,
       metrics |-> <<S3Upload2, LambdaInvoke1, S3Upload1>>],
      [types |-> <<AttemptsFloat, ResultOverride, LegacyFloat>>,
       metrics |-> <<Ec2Retry>>],
      [metrics |-> <<Ec2Start>>],
      [types |-> <<DurationFloat>> \o CommonTypes, metrics |-> <<>>] }

Files ==
    {[wellFormed |-> TRUE, document |-> d] : d \in Documents}
        \cup {[wellFormed |-> FALSE]}

FileLists == UNION {[1..n -> Files] : n \in 1..MaxFiles}

----------------------------------------------------------------------------
(* The state machine: generate() of line 47, called up to MaxRuns times in  *)
(* one process.                                                             *)

EmptyRoot == [types |-> <<>>, metrics |-> <<>>]
NoOutput == [exists |-> FALSE]

Init ==
    /\ exportedTypes = <<>>
    /\ pc = "idle"
    /\ runs = 0
    /\ inputFiles = <<>>
    /\ input = EmptyRoot
    /\ file = EmptyFile
    /\ err = NoError
    /\ writes = 0
    /\ disk = NoOutput

\* lines 47-66: read and validate every input file, then merge
ReadAndMerge(files) ==
    /\ pc = "idle"
    /\ runs < MaxRuns
    /\ runs' = runs + 1
    /\ inputFiles' = files
    /\ file' = EmptyFile
    /\ writes' = 0
    /\ IF \E k \in 1..Len(files) : ~validateInput(files[k]).ok
       THEN /\ pc' = "failed"
            /\ err' = validateInput(
                          files[CHOOSE k \in 1..Len(files) :
                                  /\ ~validateInput(files[k]).ok
                                  /\ \A j \in 1..(k - 1) : validateInput(files[j]).ok]).err
            /\ input' = EmptyRoot
       ELSE /\ pc' = "merged"
            /\ err' = NoError
            /\ input' = mergeDefinitions(
                            [k \in 1..Len(files) |-> validateInput(files[k]).ret])
    /\ UNCHANGED <<exportedTypes, disk>>

\* line 68: generateFile builds every declaration in memory
GenerateFile ==
    /\ pc = "merged"
    /\ \E r \in {generateFile(input, exportedTypes)} :
          /\ exportedTypes' = r.exportedTypes
          /\ IF r.ok
             THEN /\ pc' = "generated"
                  /\ file' = r.ret
                  /\ err' = NoError
             ELSE /\ pc' = "failed"
                  /\ file' = EmptyFile
                  /\ err' = r.err
    /\ UNCHANGED <<runs, inputFiles, input, writes, disk>>

\* variant: the unformatted text is written before formatting
FormatAfterRawWrite(ok) ==
    /\ pc = "generated"
    /\ disk' = [exists |-> TRUE, text |-> file]
    /\ writes' = writes + 1
    /\ IF ok
       THEN /\ pc' = "formatted"
            /\ err' = NoError
       ELSE /\ pc' = "failed"
            /\ err' = [class |-> "FormatError", values |-> <<>>]
    /\ UNCHANGED <<exportedTypes, runs, inputFiles, input, file>>

\* lines 69-73: read .prettierrc and format the text; either may throw
Format(ok) ==
    /\ pc = "generated"
    /\ IF ok
       THEN /\ pc' = "formatted"
            /\ err' = NoError
       ELSE /\ pc' = "failed"
            /\ err' = [class |-> "FormatError", values |-> <<>>]
    /\ UNCHANGED <<exportedTypes, runs, inputFiles, input, file, writes, disk>>

\* line 74: the only write to the output file
WriteFile ==
    /\ pc = "formatted"
    /\ disk' = [exists |-> TRUE, text |-> file]
    /\ writes' = writes + 1
    /\ pc' = "done"
    /\ UNCHANGED <<exportedTypes, runs, inputFiles, input, file, err>>

\* lines 76-77 and every throw: the call ends and its locals are gone; the
\* module-level registry and the output file stay
Return ==
    /\ pc \in {"done", "failed"}
    /\ pc' = "idle"
    /\ inputFiles' = <<>>
    /\ input' = EmptyRoot
    /\ file' = EmptyFile
    /\ err' = NoError
    /\ writes' = 0
    /\ UNCHANGED <<exportedTypes, runs, disk>>

Next ==
    \/ \E files \in FileLists : ReadAndMerge(files)
    \/ GenerateFile
    \/ \E ok \in BOOLEAN : Format(ok)
    \/ WriteFile
    \/ Return

Spec == Init /\ [][Next]_vars

----------------------------------------------------------------------------
(* Vocabulary of the properties *)

\* the current call has merged its input (validation passed)
Merged ==
    \/ pc \in {"merged", "generated", "formatted", "done"}
    \/ pc = "failed" /\ err.class # "ValidationError"

\* generateFile returned normally in the current call
Generated == pc \in {"generated", "formatted", "done"}

\* the validated documents of the current call, in input order
Docs == [k \in 1..Len(inputFiles) |-> inputFiles[k].document]

TypesOf(d) == IF Has(d, "types") THEN d.types ELSE <<>>
MetadataOf(m) == IF Has(m, "metadata") THEN m.metadata ELSE <<>>

IsCommon(n) == \E k \in 1..Len(commonMetadata) : commonMetadata[k] = n

DeclaredNames == {input.types[k].name : k \in 1..Len(input.types)}

\* the declaration a name resolves to in the merged schema
TypeNamed(n) == input.types[CHOOSE k \in 1..Len(input.types) : input.types[k].name = n]

\* (metric index, reference index) of every metadata reference
AllRefs ==
    UNION {{<<k, j>> : j \in 1..Len(MetadataOf(input.metrics[k]))} :
              k \in 1..Len(input.metrics)}

RefAt(p) == MetadataOf(input.metrics[p[1]])[p[2]]

Dangling == {p \in AllRefs : RefAt(p).type \notin DeclaredNames}

\* names that a successful generateFile resolves
ResolvedNames == Range(commonMetadata) \cup {RefAt(p).type : p \in AllRefs}

Recognized(t) ==
    \/ Has(t, "allowedValues")
    \/ ~Has(t, "type")
    \/ t.type \in {KString, KInt, KDouble, KBoolean}

NamedBy(e, n) == \E k \in 1..Len(e.values) : e.values[k] = n

----------------------------------------------------------------------------
(* C1: for every metric of a schema on which generation succeeds, the set   *)
(* of names in the runtime entry's requiredMetadata equals the set of names *)
(* of the non-optional properties the metric's interface declares, for      *)
(* references with required true, false or omitted, common or not.          *)

RequiredNames(k) ==
    {Unquote(q) : q \in Range(file.definitions[k].requiredMetadata)}

NonOptionalFields(k) ==
    {p.name : p \in {q \in Range(file.interfaces[k].properties) : ~q.hasQuestionToken}}

\* C1: requiredMetadata names = non-optional own fields, for every metric
C1_StaticRuntimeConsistent ==
    Generated =>
        /\ Len(file.interfaces) = Len(input.metrics)
        /\ Len(file.definitions) = Len(input.metrics)
        /\ \A k \in 1..Len(input.metrics) : RequiredNames(k) = NonOptionalFields(k)

C1_Witness ==
    /\ Generated
    /\ \E k \in 1..Len(input.metrics) :
        LET refs == MetadataOf(input.metrics[k])
        IN /\ \E j \in 1..Len(refs) : IsCommon(refs[j].type)
           /\ \E j \in 1..Len(refs) : ~IsCommon(refs[j].type) /\ ~Has(refs[j], "required")
           /\ \E j \in 1..Len(refs) : Has(refs[j], "required") /\ ~refs[j].required
           /\ RequiredNames(k) # {}

----------------------------------------------------------------------------
(* C4 (as claimed): requiredMetadata lists, in metadata order, the type     *)
(* names of exactly the references whose required is true or omitted.       *)

RequiredRefs(m) ==
    SelectSeq(MetadataOf(m), LAMBDA r : ~Has(r, "required") \/ r.required)

\* C4 as claimed: every reference with required true or omitted is listed
C4_AsClaimed ==
    Generated =>
        \A k \in 1..Len(input.metrics) :
            LET refs == RequiredRefs(input.metrics[k])
            IN file.definitions[k].requiredMetadata
                   = [j \in 1..Len(refs) |-> Quote(refs[j].type)]

(* C4 (amended): requiredMetadata lists, in metadata order, the type names  *)
(* of exactly the references outside the common metadata set whose required *)
(* is true or omitted; a metric whose only reference is                     *)
(* {type: result, required: true} gets an empty requiredMetadata and no     *)
(* property of its own.                                                     *)

RequiredOwnRefs(m) ==
    SelectSeq(MetadataOf(m),
              LAMBDA r : ~IsCommon(r.type) /\ (~Has(r, "required") \/ r.required))

\* C4 amended: only the references outside the common metadata set are listed
C4_RequiredMetadataOrdered ==
    Generated =>
        \A k \in 1..Len(input.metrics) :
            LET refs == RequiredOwnRefs(input.metrics[k])
            IN /\ file.definitions[k].requiredMetadata
                      = [j \in 1..Len(refs) |-> Quote(refs[j].type)]
               /\ MetadataOf(input.metrics[k]) = <<RefR(Str("r", "esult"), TRUE)>>
                      => /\ file.definitions[k].requiredMetadata = <<>>
                         /\ file.interfaces[k].properties = <<>>

C4_Witness ==
    /\ Generated
    /\ \E k \in 1..Len(input.metrics) :
           MetadataOf(input.metrics[k]) = <<RefR(Str("r", "esult"), TRUE)>>
    /\ \E k \in 1..Len(input.metrics) :
           /\ Len(file.definitions[k].requiredMetadata) >= 2
           /\ Len(RequiredRefs(input.metrics[k]))
                  > Len(file.definitions[k].requiredMetadata)

----------------------------------------------------------------------------
(* C2: first wins.  The merge leaves, for every declared type name          *)
(* (metric name), the definition of the earliest occurrence in input order, *)
(* and the kept entries are ordered by their first occurrences.             *)

MetricsOf(d) == d.metrics

TypeOcc ==
    UNION {{<<d, k>> : k \in 1..Len(TypesOf(inputFiles[d].document))} :
              d \in 1..Len(inputFiles)}
MetricOcc ==
    UNION {{<<d, k>> : k \in 1..Len(MetricsOf(inputFiles[d].document))} :
              d \in 1..Len(inputFiles)}

TypeAt(p) == TypesOf(inputFiles[p[1]].document)[p[2]]
MetricAt(p) == MetricsOf(inputFiles[p[1]].document)[p[2]]

Before(p, q) == p[1] < q[1] \/ (p[1] = q[1] /\ p[2] < q[2])

\* the earliest position of the name n in tab, a table from positions to entries
FirstOcc(tab, n) ==
    CHOOSE p \in DOMAIN tab :
        /\ tab[p].name = n
        /\ \A q \in DOMAIN tab : tab[q].name = n => (q = p \/ Before(p, q))

FirstWins(merged, occ, at(_)) ==
    LET tab == [p \in occ |-> at(p)]
        first == [k \in 1..Len(merged) |-> FirstOcc(tab, merged[k].name)]
    IN /\ {merged[k].name : k \in 1..Len(merged)} = {tab[p].name : p \in occ}
       /\ \A k \in 1..Len(merged) : merged[k] = tab[first[k]]
       /\ \A k \in 1..(Len(merged) - 1) : Before(first[k], first[k + 1])

\* C2: the merged types and metrics are the first occurrences, in input order
C2_FirstWins ==
    pc = "merged" =>
        /\ FirstWins(input.types, TypeOcc, TypeAt)
        /\ FirstWins(input.metrics, MetricOcc, MetricAt)

\* a type name declared differently in two documents and again inside one,
\* and a metric name declared differently in two documents
C2_Witness ==
    /\ pc = "merged"
    /\ \E p, q \in TypeOcc :
           /\ p[1] < q[1]
           /\ TypeAt(p).name = TypeAt(q).name
           /\ TypeAt(p) # TypeAt(q)
    /\ \E p, q \in TypeOcc :
           /\ p[1] = q[1] /\ p[2] < q[2]
           /\ TypeAt(p).name = TypeAt(q).name
           /\ TypeAt(p) # TypeAt(q)
    /\ \E p, q \in MetricOcc :
           /\ p[1] < q[1]
           /\ MetricAt(p).name = MetricAt(q).name
           /\ MetricAt(p) # MetricAt(q)

----------------------------------------------------------------------------
(* C3: names in the merged types and in the merged metrics are unique, and  *)
(* merging [A, A] yields the merged schema of [A].                          *)

UniqueNames(s) == \A j, k \in 1..Len(s) : s[j].name = s[k].name => j = k

\* C3: unique names, and merging [A, A] gives the merged schema of [A]
C3_UniqueAndIdempotent ==
    Merged =>
        /\ UniqueNames(input.types)
        /\ UniqueNames(input.metrics)
        /\ (Len(inputFiles) = 2 /\ inputFiles[1] = inputFiles[2])
               => input = mergeDefinitions(<<Docs[1]>>)

\* [A, A] was merged, where A itself repeats a type name and a metric name
C3_Witness ==
    /\ Merged
    /\ Len(inputFiles) = 2
    /\ inputFiles[1] = inputFiles[2]
    /\ ~UniqueNames(TypesOf(Docs[1]))
    /\ ~UniqueNames(MetricsOf(Docs[1]))

----------------------------------------------------------------------------
(* C6: all-or-nothing output.  A call writes the output file at most once,  *)
(* only as its last step after every document was validated and every       *)
(* declaration synthesized; a call that fails has written nothing.          *)

C6_WriteState ==
    /\ writes <= 1
    /\ pc = "failed" => writes = 0
    /\ writes = 1 =>
           /\ pc = "done"
           /\ \A k \in 1..Len(inputFiles) : inputFiles[k].wellFormed
           /\ Len(file.base) = Len(commonMetadata)
           /\ Len(file.interfaces) = Len(input.metrics)
           /\ Len(file.definitions) = Len(input.metrics)
           /\ disk = [exists |-> TRUE, text |-> file]

\* C6: the output file changes only in the final step of a call that succeeded
C6_AllOrNothing ==
    /\ []C6_WriteState
    /\ [][disk' # disk => (pc = "formatted" /\ pc' = "done" /\ writes = 0)]_vars

C6_Witness ==
    /\ pc = "failed"
    /\ err.class \in {"Error", "TypeError"}
    /\ runs = 2
    /\ disk.exists

----------------------------------------------------------------------------
(* C9: the runtime table has exactly one entry per merged metric, keyed by  *)
(* the metric name; unit, passive and trackPerformance are the declared     *)
(* values, or 'None', false and false where the metric declares none.       *)

\* C9: one runtime entry per metric, with the declared or default values
C9_RuntimeDefaults ==
    Generated =>
        /\ Len(file.definitions) = Len(input.metrics)
        /\ \A j, k \in 1..Len(file.definitions) :
               file.definitions[j].key = file.definitions[k].key => j = k
        /\ \A k \in 1..Len(input.metrics) :
               LET m == input.metrics[k]
                   e == file.definitions[k]
               IN /\ e.key = m.name
                  /\ Unquote(e.unit) = (IF Has(m, "unit") THEN m.unit ELSE Str("N", "one"))
                  /\ (e.passive = "true") = (Has(m, "passive") /\ m.passive)
                  /\ (e.passive = "false") = (~Has(m, "passive") \/ ~m.passive)
                  /\ (e.trackPerformance = "true")
                         = (Has(m, "trackPerformance") /\ m.trackPerformance)
                  /\ (e.trackPerformance = "false")
                         = (~Has(m, "trackPerformance") \/ ~m.trackPerformance)

C9_Witness ==
    /\ Generated
    /\ \E k \in 1..Len(input.metrics) :
           LET m == input.metrics[k]
           IN ~Has(m, "unit") /\ ~Has(m, "passive") /\ ~Has(m, "trackPerformance")
    /\ \E k \in 1..Len(input.metrics) :
           LET m == input.metrics[k]
           IN Has(m, "unit") /\ ~Has(m, "passive") /\ Has(m, "trackPerformance")

----------------------------------------------------------------------------
(* C7 (as claimed): when a metric of the merged schema has a metadata       *)
(* reference whose type name is not declared, the call fails with an error  *)
(* that names both the metric and the missing type name.                    *)

\* C7 as claimed: the error names the metric and the missing type
C7_AsClaimed ==
    (Merged /\ pc # "merged" /\ Dangling # {}
        /\ Range(commonMetadata) \subseteq DeclaredNames) =>
        /\ pc = "failed"
        /\ \E p \in Dangling :
               /\ NamedBy(err, input.metrics[p[1]].name)
               /\ NamedBy(err, RefAt(p).type)

(* C7 (amended): when a metric of the merged schema has a metadata          *)
(* reference whose type name is not declared, the call fails and writes     *)
(* nothing; a lookup error names exactly one name, an undeclared type name  *)
(* that is a common metadata name or a reference of some metric, and names  *)
(* no metric; a call succeeds only when every metadata reference of every   *)
(* metric and every common metadata name resolves to a declared type.       *)

\* C7 amended: the call fails; the lookup error names the missing type only
C7_ReferentialIntegrity ==
    /\ (Merged /\ pc # "merged" /\ Dangling # {}) => (pc = "failed" /\ writes = 0)
    /\ (pc = "failed" /\ err.class = "Error") =>
           /\ Len(err.values) = 1
           /\ err.values[1] \notin DeclaredNames
           /\ err.values[1] \in ResolvedNames
           /\ \A k \in 1..Len(input.metrics) : ~NamedBy(err, input.metrics[k].name)
    /\ Generated => ResolvedNames \subseteq DeclaredNames

\* the lookup of a metric's own reference failed, every common name declared
C7_Witness ==
    /\ pc = "failed"
    /\ err.class = "Error"
    /\ Range(commonMetadata) \subseteq DeclaredNames
    /\ \E p \in Dangling : err.values = <<RefAt(p).type>>

----------------------------------------------------------------------------
(* C8 (as claimed): a metadata type without allowedValues resolves by its   *)
(* `type`; an unrecognized `type` fails the call with a TypeError naming    *)
(* the metadata type and its owning metric, so any merged type declaring an *)
(* unrecognized `type` is fatal to the call.                                *)

Unrecognized == {k \in 1..Len(input.types) : ~Recognized(input.types[k])}

\* C8 as claimed: every unrecognized `type` is fatal and the error names a metric
C8_AsClaimed ==
    (Merged /\ pc # "merged" /\ Unrecognized # {}
        /\ ResolvedNames \subseteq DeclaredNames) =>
        /\ pc = "failed"
        /\ err.class = "TypeError"
        /\ \E k \in Unrecognized : NamedBy(err, input.types[k].name)
        /\ \E k \in 1..Len(input.metrics) : NamedBy(err, input.metrics[k].name)

(* C8 (amended): a resolved metadata type without allowedValues gives       *)
(* string for `type` string or absent, number for int or double, boolean    *)
(* for boolean; any other `type` fails the call with a TypeError that names *)
(* the unknown `type` value and the metadata type, and no metric; a merged  *)
(* type with an unrecognized `type` is fatal exactly when it is resolved,   *)
(* i.e. it has no allowedValues and is a common metadata name or is         *)
(* referenced by a metric; one that no metric references is ignored.        *)

ExpectedKind(t) ==
    IF ~Has(t, "type") \/ t.type = Str("s", "tring") THEN Str("s", "tring")
    ELSE IF t.type \in {Str("i", "nt"), Str("d", "ouble")} THEN Str("n", "umber")
    ELSE Str("b", "oolean")

AllProperties ==
    Range(file.base) \cup UNION {Range(file.interfaces[k].properties) :
                                    k \in 1..Len(file.interfaces)}

\* C8 amended: kind dispatch; fatal when resolved; the error names no metric
C8_KindDispatch ==
    /\ Generated =>
           /\ \A n \in ResolvedNames : Recognized(TypeNamed(n))
           /\ \A p \in AllProperties :
                  ~Has(TypeNamed(p.name), "allowedValues")
                      => p.type = ExpectedKind(TypeNamed(p.name))
    /\ (pc = "failed" /\ err.class = "TypeError") =>
           /\ \E n \in ResolvedNames \cap DeclaredNames :
                  /\ ~Recognized(TypeNamed(n))
                  /\ err.values = <<TypeNamed(n).type, n>>
           /\ \A k \in 1..Len(input.metrics) : ~NamedBy(err, input.metrics[k].name)
    /\ (Merged /\ pc # "merged"
          /\ \E n \in ResolvedNames \cap DeclaredNames : ~Recognized(TypeNamed(n)))
           => pc = "failed"

\* a TypeError raised for a type that a metric references, while another
\* unrecognized type of the schema is referenced by nothing
C8_Witness ==
    /\ pc = "failed"
    /\ err.class = "TypeError"
    /\ \E p \in AllRefs : err.values[2] = RefAt(p).type
    /\ \E k \in Unrecognized : input.types[k].name \notin ResolvedNames

----------------------------------------------------------------------------
(* C5: enumerated-type resolution is idempotent by name.  The registry      *)
(* holds no two declarations of one union-type name, and after a successful *)
(* generation the union registered for every resolved enumerated metadata   *)
(* type is the union of that type's own allowed values.                     *)

\* C5: one declaration per union name, holding the type's own allowed values
C5_RegistryIdempotent ==
    /\ \A j, k \in 1..Len(exportedTypes) :
           exportedTypes[j].name = exportedTypes[k].name => j = k
    /\ Generated =>
           \A n \in ResolvedNames :
               Has(TypeNamed(n), "allowedValues") =>
                   \E k \in 1..Len(exportedTypes) :
                       /\ exportedTypes[k].name = toTitleCase(n)
                       /\ exportedTypes[k].type
                              = [j \in 1..Len(TypeNamed(n).allowedValues) |->
                                     <<"'", TypeNamed(n).allowedValues[j], "'">>]

----------------------------------------------------------------------------
(* C10: no state persists across calls.  The union types a call emits are   *)
(* the ones the same merged input yields in a fresh process, and the        *)
(* registry carries nothing from an earlier call.                           *)

\* C10: the emitted union types are those of a fresh process
C10_NoCrossRunState ==
    Generated =>
        /\ file.typeAliases = generateFile(input, <<>>).ret.typeAliases
        /\ exportedTypes = file.typeAliases

====
